---- MODULE Spec2Model ----
(***************************************************************************)
(* Model of the agent-run transcript viewers of claudia:                   *)
(*   src/src/components/AgentRunOutputViewer.tsx  (snapshot + live viewer) *)
(*   src/src/components/AgentExecution.tsx        (visibility filter)      *)
(*                                                                         *)
(* Spec       : one run, the process-wide output cache and successive      *)
(*              AgentRunOutputViewer instances opened on that run.  Every   *)
(*              action is one JavaScript task: the code between two awaits. *)
(* FilterSpec : the displayableMessages filter applied to a growing list   *)
(*              of stream messages.                                        *)
(***************************************************************************)
EXTENDS Integers, Sequences, FiniteSets, TLC

VARIABLES
    \* ---- the run, as the backend and the parent component know it ----
    emitted,         \* output lines of the run so far; emitted[i] is the kind of line i
    runStatus,       \* status of the run in the backend
    propStatus,      \* run.status as passed to the viewer by its parent
    now,             \* Date.now()
    \* ---- process-wide output cache (useOutputCache) ----
    cache,           \* entry for run.id, or NoEntry
    \* ---- the viewer instance ----
    inst,            \* number of the current viewer instance (0: none created yet)
    open,            \* the current instance is mounted
    rawJsonlOutput,  \* useState<string[]>: line numbers
    messages,        \* useState<ClaudeStreamMessage[]>: line numbers of the parsed lines
    loading,         \* useState(false)
    refreshing,      \* useState(false)
    toast,           \* useState(null): "none", or which notice is shown
    unlistenRefs,    \* useRef<UnlistenFn[]> of every instance: the listeners it can unsubscribe
    \* ---- asynchronous work in flight ----
    loads,           \* loadOutput invocations suspended at an await
    setups,          \* setupLiveEventListeners invocations suspended at an await
    listeners,       \* listeners subscribed on the event bus
    nLoads,          \* loadOutput invocations so far
    \* ---- history ----
    liveSeen,        \* lines delivered to a listener of the current instance
    lastSnap,        \* lines of the snapshot applied last to the current instance
    lastOp,          \* the operation that ran last
    \* ---- displayableMessages ----
    fmessages,       \* a list of stream messages
    displayable,     \* useMemo: indices of the messages of fmessages that are shown
    itemSizeCache,   \* of each virtualizer: the measured size of the item at each index
    \* ---- the scrolled message list of the component on screen ----
    component,       \* "AgentExecution" or "AgentRunOutputViewer"; "none" off screen
    hasUserScrolled, \* useState(false)
    items,           \* messages.length, every message being displayable
    scrollTop,       \* scrollTop of the scroll container
    scrolling,       \* scrollTop a smooth scroll in progress is heading for, or NoScroll
    userScrolled,    \* history: the user has scrolled the container
    isRunning,       \* AgentExecution: useState(false)
    error,           \* AgentExecution: useState(null): "none", or which error is shown
    execs,           \* AgentExecution: handleExecute invocations suspended at an await
    execListeners,   \* AgentExecution: listeners subscribed on the event bus
    execRefs,        \* AgentExecution: unlistenRefs.current
    alive,           \* agent runs started by AgentExecution that are still running
    nRuns,           \* handleExecute invocations so far
    viewLoading,     \* AgentRunOutputViewer: loading
    viewLoad,        \* AgentRunOutputViewer: position of the loadOutput in flight
    isFullscreenModalOpen, \* useState(false); isFullscreen in AgentRunOutputViewer
    backTop,         \* scrollTop of the normal view's container under the fullscreen view
    \* ---- the runs behind the message list on screen ----
    viewRun,         \* AgentRunOutputViewer: run.id, the run shown (0: not told apart)
    staleRun,        \* AgentRunOutputViewer: the run of a fetch that was in flight when
                     \* run.id changed (0: none)
    logRuns,         \* history: the runs whose output lines the message list holds
    stopped          \* history: the executions the user has stopped

vars == <<emitted, runStatus, propStatus, now, cache, inst, open, rawJsonlOutput,
          messages, loading, refreshing, toast, unlistenRefs, loads, setups,
          listeners, nLoads, liveSeen, lastSnap, lastOp, fmessages, displayable,
          itemSizeCache, component, hasUserScrolled, items, scrollTop, scrolling, userScrolled,
          isRunning, error, execs, execListeners, execRefs, alive, nRuns,
          viewLoading, viewLoad, isFullscreenModalOpen, backTop, viewRun, staleRun,
          logRuns, stopped>>

viewerVars == <<emitted, runStatus, propStatus, now, cache, inst, open, rawJsonlOutput,
                messages, loading, refreshing, toast, unlistenRefs, loads, setups,
                listeners, nLoads, liveSeen, lastSnap, lastOp>>

filterVars == <<fmessages, displayable, itemSizeCache>>

scrollVars == <<component, hasUserScrolled, items, scrollTop, scrolling, userScrolled,
                isRunning, error, execs, execListeners, execRefs, alive, nRuns,
                viewLoading, viewLoad, isFullscreenModalOpen, backTop, viewRun, staleRun,
          logRuns, stopped>>

\* The runs behind the state.  The actions that add to the message list or stop an
\* execution say nothing about them: ScrollNext leaves them unchanged and RunNext
\* records them.
runVars == <<viewRun, staleRun, logRuns, stopped>>

----------------------------------------------------------------------------
\* Bounds of the model
MaxLines == 2
MaxLoads == 2
MaxOpens == 2
MaxTicks == 2
MaxMsgs == 3
TickMs == 2500
MaxItems == 3
MaxRuns == 2
ItemHeight == 150
ClientHeight == 200

\* AgentRunOutputViewer.tsx:128
FreshnessMs == 5000

\* AgentRunOutputViewer.tsx:294
ScrollTolerance == 50

\* AgentExecution.tsx:194, AgentRunOutputViewer.tsx:87
BottomEpsilon == 1

NoEntry == [present |-> FALSE]

NoScroll == -1

LineKinds == {"json", "bad"}

Channels == <<"output", "error", "complete", "cancelled">>

----------------------------------------------------------------------------
\* Helpers

Range(s) == {s[i] : i \in 1..Len(s)}

Count(x, s) == Cardinality({i \in 1..Len(s) : s[i] = x})

\* api.getSessionOutput: the output of the run so far (lines 1..k)
Snapshot(k) == [i \in 1..k |-> i]

\* rawOutput.split('\n').filter(line => line.trim())
SplitLines(output) == SelectSeq(output, LAMBDA l : emitted[l] \in LineKinds)

\* JSON.parse succeeds on a payload of this kind
JsonParses(kind) == kind = "json"

\* JSON.parse succeeds on line l of the run's output
ParseOk(l) == JsonParses(emitted[l])

\* the parse loop of loadOutput: lines that fail to parse are skipped
ParseAll(lines) == SelectSeq(lines, ParseOk)

\* useOutputCache().getCachedOutput(run.id): synchronous, no I/O
getCachedOutput == cache

\* useOutputCache().setCachedOutput(run.id, entry): the entry replaces the prior one
setCachedOutput(entry) == entry

\* faulty variant: the comparison of the age is reversed
CacheOnly_Reversed(cached, status) ==
    /\ now - cached.lastUpdated >= FreshnessMs
    /\ status # "running"

\* loadOutput, line 128: the cached entry is used alone, without a fetch
CacheOnly(cached, status) ==
    /\ now - cached.lastUpdated < FreshnessMs
    /\ status # "running"

\* faulty variant: the snapshot's lines are appended to the lines already shown
SnapshotRaw_Appends(prev, jsonlLines) == prev \o jsonlLines

\* loadOutput, lines 138-139: the snapshot's lines become the raw record
SnapshotRaw(prev, jsonlLines) == jsonlLines

\* faulty variant: the snapshot's parsed lines are appended to the messages shown
SnapshotMessages_Appends(prev, jsonlLines) == prev \o ParseAll(jsonlLines)

\* loadOutput, lines 141-150: the snapshot's parsed lines become the message list
SnapshotMessages(prev, jsonlLines) == ParseAll(jsonlLines)

\* agent-output listener, line 190: setRawJsonlOutput(prev => [...prev, payload])
LiveRaw(prev, l) == Append(prev, l)

\* faulty variant: a payload that fails to parse is added to the message list
LiveMessages_KeepsBad(prev, l, kind) == Append(prev, l)

\* agent-output listener, lines 193-197: a payload that fails to parse adds no message
LiveMessages(prev, l, kind) == IF JsonParses(kind) THEN Append(prev, l) ELSE prev

\* the listeners an unlisten() of every element of refs leaves subscribed
Unlisten(subscribed, refs) == subscribed \ refs

\* the listeners of instance v that are subscribed to channel ch
ListenersOf(v, ch) == {x \in listeners : x.inst = v /\ x.ch = ch}

\* React keeps the state of a mounted component only
Mounted(v) == open /\ v = inst

\* the agent-output listener applied to the lines of live, in order
RECURSIVE ReplayRaw(_, _)
ReplayRaw(log, live) ==
    IF live = <<>> THEN log ELSE ReplayRaw(LiveRaw(log, Head(live)), Tail(live))

RECURSIVE ReplayMessages(_, _)
ReplayMessages(log, live) ==
    IF live = <<>> THEN log
    ELSE ReplayMessages(LiveMessages(log, Head(live), emitted[Head(live)]), Tail(live))

\* snapshot-then-subscribe: loadOutput applies the snapshot to the log shown, then
\* the listener appends the live lines
MergeRaw(prev, jsonlLines, live) == ReplayRaw(SnapshotRaw(prev, jsonlLines), live)

MergeMessages(prev, jsonlLines, live) ==
    ReplayMessages(SnapshotMessages(prev, jsonlLines), live)

----------------------------------------------------------------------------
\* displayableMessages (AgentExecution.tsx:97-161, AgentRunOutputViewer.tsx:313-355)
\* A tool name is a sequence of characters; <<>> is an absent name.

UpperCase == <<"A", "B", "C", "D", "E", "F", "G", "H", "I", "J", "K", "L", "M",
               "N", "O", "P", "Q", "R", "S", "T", "U", "V", "W", "X", "Y", "Z">>
LowerCase == <<"a", "b", "c", "d", "e", "f", "g", "h", "i", "j", "k", "l", "m",
               "n", "o", "p", "q", "r", "s", "t", "u", "v", "w", "x", "y", "z">>

LowerChar(c) ==
    IF \E i \in 1..26 : UpperCase[i] = c
    THEN LowerCase[CHOOSE i \in 1..26 : UpperCase[i] = c]
    ELSE c

\* String.prototype.toLowerCase
toLowerCase(name) == [i \in 1..Len(name) |-> LowerChar(name[i])]

\* String.prototype.startsWith
startsWith(name, prefix) ==
    /\ Len(name) >= Len(prefix)
    /\ SubSeq(name, 1, Len(prefix)) = prefix

McpPrefix == <<"m", "c", "p", "_", "_">>

toolsWithWidgets ==
    { <<"t", "a", "s", "k">>, <<"e", "d", "i", "t">>,
      <<"m", "u", "l", "t", "i", "e", "d", "i", "t">>,
      <<"t", "o", "d", "o", "w", "r", "i", "t", "e">>,
      <<"l", "s">>, <<"r", "e", "a", "d">>, <<"g", "l", "o", "b">>,
      <<"b", "a", "s", "h">>, <<"w", "r", "i", "t", "e">>, <<"g", "r", "e", "p">> }

\* faulty variant: the tool name is compared without toLowerCase
HasWidget_CaseSensitive(name) ==
    name \in toolsWithWidgets \/ startsWith(name, McpPrefix)

\* lines 132-139: the result of a tool of this name is rendered by a widget
HasWidget(name) ==
    toLowerCase(name) \in toolsWithWidgets \/ startsWith(name, McpPrefix)

\* prevMsg.message.content.find(c => c.type === 'tool_use' && c.id === id):
\* the index of the first such block, 0 when there is none
FindToolUse(blocks, id) ==
    IF \E k \in 1..Len(blocks) : blocks[k].type = "tool_use" /\ blocks[k].id = id
    THEN CHOOSE k \in 1..Len(blocks) :
             /\ blocks[k].type = "tool_use" /\ blocks[k].id = id
             /\ \A j \in 1..(k - 1) : ~(blocks[j].type = "tool_use" /\ blocks[j].id = id)
    ELSE 0

\* faulty variant: a tool_result whose tool_use is not found is skipped
RECURSIVE ScanBack_FailClosed(_, _, _)
ScanBack_FailClosed(msgs, i, id) ==
    IF i = 0 THEN TRUE
    ELSE LET prevMsg == msgs[i]
             k == IF prevMsg.type = "assistant" /\ prevMsg.hasMessage
                       /\ prevMsg.content.kind = "list"
                  THEN FindToolUse(prevMsg.content.blocks, id) ELSE 0
         IN  IF k # 0 THEN HasWidget(prevMsg.content.blocks[k].name)
             ELSE ScanBack_FailClosed(msgs, i - 1, id)

\* the index of the tool_use block with this id in message j, 0 when message j is
\* not an assistant message with such a block
ToolUseIn(msgs, j, id) ==
    IF msgs[j].type = "assistant" /\ msgs[j].hasMessage /\ msgs[j].content.kind = "list"
    THEN FindToolUse(msgs[j].content.blocks, id) ELSE 0

\* faulty variant: the loop runs upwards from the first message
ScanBack_OldestFirst(msgs, i, id) ==
    LET js == {j \in 1..i : ToolUseIn(msgs, j, id) # 0}
    IN  IF js = {} THEN FALSE
        ELSE LET j == CHOOSE j \in js : \A k \in js : j <= k
             IN  HasWidget(msgs[j].content.blocks[ToolUseIn(msgs, j, id)].name)

\* faulty variant: the loop starts at the last message of the log
ScanBack_WholeLog(msgs, i, id) ==
    LET js == {j \in 1..Len(msgs) : ToolUseIn(msgs, j, id) # 0}
    IN  IF js = {} THEN FALSE
        ELSE LET j == CHOOSE j \in js : \A k \in js : j >= k
             IN  HasWidget(msgs[j].content.blocks[ToolUseIn(msgs, j, id)].name)

\* lines 125-143: the loop for (i = index - 1; i >= 0; i--), entered at message i;
\* the value of willBeSkipped when the loop ends
RECURSIVE ScanBack(_, _, _)
ScanBack(msgs, i, id) ==
    IF i = 0 THEN FALSE
    ELSE LET prevMsg == msgs[i]
             k == IF prevMsg.type = "assistant" /\ prevMsg.hasMessage
                       /\ prevMsg.content.kind = "list"
                  THEN FindToolUse(prevMsg.content.blocks, id) ELSE 0
         IN  IF k # 0 THEN HasWidget(prevMsg.content.blocks[k].name)
             ELSE ScanBack(msgs, i - 1, id)

\* lines 116-151: the loop over the content blocks, entered at block k;
\* the value of hasVisibleContent when the loop ends
RECURSIVE HasVisibleContent(_, _, _)
HasVisibleContent(msgs, index, k) ==
    LET blocks == msgs[index].content.blocks
    IN  IF k > Len(blocks) THEN FALSE
        ELSE LET content == blocks[k]
             IN  IF content.type = "text" THEN TRUE
                 ELSE IF content.type = "tool_result"
                 THEN LET willBeSkipped ==
                              content.id # "" /\ ScanBack(msgs, index - 1, content.id)
                      IN  IF ~willBeSkipped THEN TRUE
                          ELSE HasVisibleContent(msgs, index, k + 1)
                 ELSE HasVisibleContent(msgs, index, k + 1)

\* faulty variant: every message flagged meta is dropped
IsDisplayable_DropsAllMeta(msgs, index) ==
    LET message == msgs[index]
    IN  IF message.isMeta THEN FALSE
        ELSE IF message.type = "user" /\ message.hasMessage
        THEN IF message.content.kind = "absent"
                \/ (message.content.kind = "list" /\ Len(message.content.blocks) = 0)
             THEN FALSE
             ELSE IF message.content.kind = "list"
             THEN HasVisibleContent(msgs, index, 1)
             ELSE TRUE
        ELSE TRUE

\* lines 98-160: the filter callback for the message at index
IsDisplayable(msgs, index) ==
    LET message == msgs[index]
    IN  IF message.isMeta /\ ~message.leafUuid /\ ~message.summary THEN FALSE
        ELSE IF message.type = "user" /\ message.hasMessage
        THEN IF message.isMeta THEN FALSE
             ELSE IF message.content.kind = "absent"
                     \/ (message.content.kind = "list" /\ Len(message.content.blocks) = 0)
             THEN FALSE
             ELSE IF message.content.kind = "list"
             THEN HasVisibleContent(msgs, index, 1)
             ELSE TRUE
        ELSE TRUE

\* messages.filter(...): the indices of the messages that are displayed, in order
displayableMessages(msgs) ==
    SelectSeq([i \in 1..Len(msgs) |-> i], LAMBDA i : IsDisplayable(msgs, i))

----------------------------------------------------------------------------
\* Stream messages fed to the filter

Bash        == <<"b", "a", "s", "h">>
Read        == <<"R", "e", "a", "d">>
UnknownTool == <<"U", "n", "k", "n", "o", "w", "n", "T", "o", "o", "l">>
McpLower    == <<"m", "c", "p", "_", "_", "x">>
McpUpper    == <<"M", "C", "P", "_", "_", "x">>

ToolNames == {Bash, Read, UnknownTool, McpLower, McpUpper}

Text          == [type |-> "text", id |-> "", name |-> <<>>]
Image         == [type |-> "image", id |-> "", name |-> <<>>]
ToolUse(i, n) == [type |-> "tool_use", id |-> i, name |-> n]
ToolResult(i) == [type |-> "tool_result", id |-> i, name |-> <<>>]

List(blocks) == [kind |-> "list", blocks |-> blocks]
Absent       == [kind |-> "absent", blocks |-> <<>>]
String       == [kind |-> "string", blocks |-> <<>>]

Msg(t, c) == [type |-> t, isMeta |-> FALSE, leafUuid |-> FALSE, summary |-> FALSE,
              hasMessage |-> TRUE, content |-> c]

AssistantMessages ==
    {Msg("assistant", List(<<ToolUse("t1", n)>>)) : n \in ToolNames}
    \cup {Msg("assistant", List(<<ToolUse("t2", Bash)>>)),
          Msg("assistant", List(<<Text>>))}

UserMessages ==
    {Msg("user", c) : c \in {List(<<ToolResult("t1")>>), List(<<ToolResult("t2")>>),
                             List(<<ToolResult("t1"), ToolResult("t2")>>),
                             List(<<ToolResult("")>>), List(<<Text>>),
                             List(<<ToolResult("t1"), Text>>), List(<<Image>>),
                             List(<<ToolUse("t1", Bash)>>), List(<<>>), Absent, String}}
    \cup {[Msg("user", List(<<ToolResult("t1")>>)) EXCEPT !.isMeta = TRUE],
          [Msg("user", List(<<Text>>)) EXCEPT !.isMeta = TRUE, !.leafUuid = TRUE],
          [Msg("user", List(<<ToolResult("t2")>>)) EXCEPT !.isMeta = TRUE, !.summary = TRUE],
          [Msg("user", Absent) EXCEPT !.hasMessage = FALSE]}

OtherMessages ==
    {[Msg("system", Absent) EXCEPT !.hasMessage = FALSE],
     [Msg("result", Absent) EXCEPT !.hasMessage = FALSE],
     [Msg("system", Absent) EXCEPT !.hasMessage = FALSE, !.isMeta = TRUE],
     [Msg("summary", Absent) EXCEPT !.hasMessage = FALSE, !.isMeta = TRUE, !.summary = TRUE],
     [Msg("assistant", List(<<ToolUse("t1", Bash)>>)) EXCEPT !.isMeta = TRUE]}

StreamMessages == AssistantMessages \cup UserMessages \cup OtherMessages

----------------------------------------------------------------------------
\* Initial state: the run has just started, no viewer has been opened yet

InitViewer ==
    /\ emitted = <<>>
    /\ runStatus = "running"
    /\ propStatus = "running"
    /\ now = 0
    /\ cache = NoEntry
    /\ inst = 0
    /\ open = FALSE
    /\ rawJsonlOutput = <<>>
    /\ messages = <<>>
    /\ loading = FALSE
    /\ refreshing = FALSE
    /\ toast = "none"
    /\ unlistenRefs = [v \in 1..MaxOpens |-> {}]
    /\ loads = {}
    /\ setups = {}
    /\ listeners = {}
    /\ nLoads = 0
    /\ liveSeen = {}
    /\ lastSnap = <<>>
    /\ lastOp = <<"init", "">>

\* the two virtualizers of AgentExecution (lines 164-176)
Virtualizers == {"rowVirtualizer", "fullscreenRowVirtualizer"}

\* no item has been measured
NotMeasured == 0

InitFilter ==
    /\ fmessages = <<>>
    /\ displayable = <<>>
    /\ itemSizeCache = [v \in Virtualizers |-> [p \in 1..MaxMsgs |-> NotMeasured]]

\* component c is rendered for the first time: nothing shown, nothing scrolled
InitScreen(c) ==
    /\ component = c
    /\ hasUserScrolled = FALSE
    /\ items = 0
    /\ scrollTop = 0
    /\ scrolling = NoScroll
    /\ userScrolled = FALSE
    /\ isRunning = FALSE
    /\ error = "none"
    /\ execs = {}
    /\ execListeners = {}
    /\ execRefs = {}
    /\ alive = {}
    /\ nRuns = 0
    /\ viewLoading = FALSE
    /\ viewLoad = "none"
    /\ isFullscreenModalOpen = FALSE
    /\ backTop = 0
    /\ viewRun = 0
    /\ staleRun = 0
    /\ logRuns = {}
    /\ stopped = {}

Init == InitViewer /\ InitFilter /\ InitScreen("none")

----------------------------------------------------------------------------
\* AgentRunOutputViewer: loadOutput up to its first await.
\* shownRaw/shownMsgs are the log before the call; skipCache is TRUE for refreshOutput.
\* The primed log, loading and loads are set here.

LoadOutputCall(v, skipCache, shownRaw, shownMsgs, op) ==
    LET cached == getCachedOutput
        hit    == ~skipCache /\ cached.present
        raw1   == IF hit THEN SplitLines(cached.output) ELSE shownRaw
        msgs1  == IF hit THEN cached.messages ELSE shownMsgs
    IN  /\ rawJsonlOutput' = raw1
        /\ messages' = msgs1
        /\ IF hit /\ CacheOnly(cached, propStatus)
           THEN \* return; finally setLoading(false)
                /\ loading' = FALSE
                /\ loads' = loads
                /\ nLoads' = nLoads
                /\ lastOp' = <<op, "cache">>
           ELSE \* setLoading(true); await api.getSessionOutput(run.id)
                /\ loading' = TRUE
                /\ nLoads' = nLoads + 1
                /\ loads' = loads \cup {[id |-> nLoads + 1, inst |-> v,
                                         refresh |-> skipCache, status |-> propStatus,
                                         pc |-> "fetch", snap |-> 0]}
                /\ lastOp' = <<op, "fetch">>

\* A viewer is opened on the run: first render and the load-on-mount effect
Mount ==
    /\ ~open
    /\ inst < MaxOpens
    /\ nLoads < MaxLoads
    /\ inst' = inst + 1
    /\ open' = TRUE
    /\ refreshing' = FALSE
    /\ toast' = "none"
    /\ liveSeen' = {}
    /\ lastSnap' = <<>>
    /\ LET cached == getCachedOutput
       IN  LoadOutputCall(inst + 1, FALSE,
                          IF cached.present THEN SplitLines(cached.output) ELSE <<>>,
                          IF cached.present THEN cached.messages ELSE <<>>,
                          "mount")
    /\ UNCHANGED <<emitted, runStatus, propStatus, now, cache, unlistenRefs, setups,
                   listeners>>
    /\ UNCHANGED <<filterVars, scrollVars>>

\* refreshOutput: the button is disabled while refreshing
Refresh ==
    /\ open
    /\ ~refreshing
    /\ nLoads < MaxLoads
    /\ refreshing' = TRUE
    /\ LoadOutputCall(inst, TRUE, rawJsonlOutput, messages, "refresh")
    /\ UNCHANGED <<emitted, runStatus, propStatus, now, cache, inst, open, toast,
                   unlistenRefs, setups, listeners, liveSeen, lastSnap>>
    /\ UNCHANGED <<filterVars, scrollVars>>

\* The backend reads the run's output for a pending api.getSessionOutput
FetchServe(l) ==
    /\ l.pc = "fetch"
    /\ loads' = (loads \ {l}) \cup {[l EXCEPT !.pc = "served", !.snap = Len(emitted)]}
    /\ lastOp' = <<"step", "">>
    /\ UNCHANGED <<emitted, runStatus, propStatus, now, cache, inst, open, rawJsonlOutput,
                   messages, loading, refreshing, toast, unlistenRefs, setups, listeners,
                   nLoads, liveSeen, lastSnap>>
    /\ UNCHANGED <<filterVars, scrollVars>>

\* loadOutput resumes after await api.getSessionOutput (lines 137-169), up to
\* await api.streamSessionOutput; setupLiveEventListeners runs up to its first await
FetchResolve(l) ==
    /\ l.pc = "served"
    /\ LET jsonlLines     == SplitLines(Snapshot(l.snap))
           parsedMessages == ParseAll(jsonlLines)
       IN  /\ IF Mounted(l.inst)
              THEN /\ rawJsonlOutput' = SnapshotRaw(rawJsonlOutput, jsonlLines)
                   /\ messages' = SnapshotMessages(messages, jsonlLines)
                   /\ lastSnap' = jsonlLines
              ELSE UNCHANGED <<rawJsonlOutput, messages, lastSnap>>
           /\ cache' = setCachedOutput([present |-> TRUE, output |-> Snapshot(l.snap),
                                        messages |-> parsedMessages, lastUpdated |-> now,
                                        status |-> l.status])
    /\ IF l.status = "running"
       THEN \* setupLiveEventListeners(); await api.streamSessionOutput(run.id)
            /\ listeners' = Unlisten(listeners, unlistenRefs[l.inst])
            /\ unlistenRefs' = [unlistenRefs EXCEPT ![l.inst] = {}]
            /\ setups' = setups \cup {[id |-> l.id, inst |-> l.inst, n |-> 0]}
            /\ loads' = (loads \ {l}) \cup {[l EXCEPT !.pc = "stream"]}
            /\ UNCHANGED <<loading, refreshing>>
       ELSE \* finally setLoading(false); refreshOutput: setRefreshing(false)
            /\ loads' = loads \ {l}
            /\ loading' = IF Mounted(l.inst) THEN FALSE ELSE loading
            /\ refreshing' = IF Mounted(l.inst) /\ l.refresh THEN FALSE ELSE refreshing
            /\ UNCHANGED <<listeners, unlistenRefs, setups>>
    /\ lastOp' = <<"step", "">>
    /\ UNCHANGED <<emitted, runStatus, propStatus, now, inst, open, toast, nLoads, liveSeen>>
    /\ UNCHANGED <<filterVars, scrollVars>>

\* faulty variant: the catch block clears the log and leaves the loading flag set
FetchReject_ClearsLog(l) ==
    /\ l.pc = "fetch"
    /\ loads' = loads \ {l}
    /\ toast' = IF Mounted(l.inst) THEN "loadFailed" ELSE toast
    /\ rawJsonlOutput' = IF Mounted(l.inst) THEN <<>> ELSE rawJsonlOutput
    /\ messages' = IF Mounted(l.inst) THEN <<>> ELSE messages
    /\ refreshing' = IF Mounted(l.inst) /\ l.refresh THEN FALSE ELSE refreshing
    /\ lastOp' = <<"step", "">>
    /\ UNCHANGED <<emitted, runStatus, propStatus, now, cache, inst, open, loading,
                   unlistenRefs, setups, listeners, nLoads, liveSeen, lastSnap>>
    /\ UNCHANGED <<filterVars, scrollVars>>

\* api.getSessionOutput rejects: catch (lines 170-172) and finally
FetchReject(l) ==
    /\ l.pc = "fetch"
    /\ loads' = loads \ {l}
    /\ toast' = IF Mounted(l.inst) THEN "loadFailed" ELSE toast
    /\ loading' = IF Mounted(l.inst) THEN FALSE ELSE loading
    /\ refreshing' = IF Mounted(l.inst) /\ l.refresh THEN FALSE ELSE refreshing
    /\ lastOp' = <<"step", "">>
    /\ UNCHANGED <<emitted, runStatus, propStatus, now, cache, inst, open, rawJsonlOutput,
                   messages, unlistenRefs, setups, listeners, nLoads, liveSeen, lastSnap>>
    /\ UNCHANGED <<filterVars, scrollVars>>

\* await api.streamSessionOutput settles (a rejection is caught, lines 166-168); finally
StreamDone(l) ==
    /\ l.pc = "stream"
    /\ loads' = loads \ {l}
    /\ loading' = IF Mounted(l.inst) THEN FALSE ELSE loading
    /\ refreshing' = IF Mounted(l.inst) /\ l.refresh THEN FALSE ELSE refreshing
    /\ lastOp' = <<"step", "">>
    /\ UNCHANGED <<emitted, runStatus, propStatus, now, cache, inst, open, rawJsonlOutput,
                   messages, toast, unlistenRefs, setups, listeners, nLoads, liveSeen,
                   lastSnap>>
    /\ UNCHANGED <<filterVars, scrollVars>>

\* the four listeners a setupLiveEventListeners invocation registers
SetupListeners(s) == {[sid |-> s.id, inst |-> s.inst, ch |-> Channels[k]] : k \in 1..4}

\* setupLiveEventListeners: the next await listen(...) registers its listener and
\* resolves; after the fourth, line 213 records the four in unlistenRefs
ListenStep(s) ==
    /\ listeners' = listeners \cup {[sid |-> s.id, inst |-> s.inst, ch |-> Channels[s.n + 1]]}
    /\ IF s.n < 3
       THEN /\ setups' = (setups \ {s}) \cup {[s EXCEPT !.n = s.n + 1]}
            /\ UNCHANGED unlistenRefs
       ELSE /\ setups' = setups \ {s}
            /\ unlistenRefs' = [unlistenRefs EXCEPT ![s.inst] = SetupListeners(s)]
    /\ lastOp' = <<"step", "">>
    /\ UNCHANGED <<emitted, runStatus, propStatus, now, cache, inst, open, rawJsonlOutput,
                   messages, loading, refreshing, toast, loads, nLoads, liveSeen, lastSnap>>
    /\ UNCHANGED <<filterVars, scrollVars>>

\* faulty variant: the catch block reports a load failure and drops the messages
ListenFail_Aborts(s) ==
    /\ setups' = setups \ {s}
    /\ toast' = IF Mounted(s.inst) THEN "loadFailed" ELSE toast
    /\ messages' = IF Mounted(s.inst) THEN <<>> ELSE messages
    /\ lastOp' = <<"step", "">>
    /\ UNCHANGED <<emitted, runStatus, propStatus, now, cache, inst, open, rawJsonlOutput,
                   loading, refreshing, unlistenRefs, loads, listeners, nLoads, liveSeen,
                   lastSnap>>
    /\ UNCHANGED <<filterVars, scrollVars>>

\* an await listen(...) rejects: catch (lines 214-216); earlier listeners stay subscribed
ListenFail(s) ==
    /\ setups' = setups \ {s}
    /\ lastOp' = <<"step", "">>
    /\ UNCHANGED <<emitted, runStatus, propStatus, now, cache, inst, open, rawJsonlOutput,
                   messages, loading, refreshing, toast, unlistenRefs, loads, listeners,
                   nLoads, liveSeen, lastSnap>>
    /\ UNCHANGED <<filterVars, scrollVars>>

\* a line delivered to n agent-output listeners of the mounted instance
RECURSIVE DeliverRaw(_, _, _)
DeliverRaw(prev, l, n) == IF n = 0 THEN prev ELSE DeliverRaw(LiveRaw(prev, l), l, n - 1)

RECURSIVE DeliverMessages(_, _, _, _)
DeliverMessages(prev, l, kind, n) ==
    IF n = 0 THEN prev ELSE DeliverMessages(LiveMessages(prev, l, kind), l, kind, n - 1)

\* The run writes one output line; the backend emits agent-output:<run.id>
Emit(kind) ==
    /\ runStatus = "running"
    /\ Len(emitted) < MaxLines
    /\ emitted' = Append(emitted, kind)
    /\ LET l == Len(emitted) + 1
           n == IF open THEN Cardinality(ListenersOf(inst, "output")) ELSE 0
       IN  /\ rawJsonlOutput' = DeliverRaw(rawJsonlOutput, l, n)
           /\ messages' = DeliverMessages(messages, l, kind, n)
           /\ liveSeen' = IF n > 0 THEN liveSeen \cup {l} ELSE liveSeen
    /\ lastOp' = <<"step", "">>
    /\ UNCHANGED <<runStatus, propStatus, now, cache, inst, open, loading, refreshing,
                   toast, unlistenRefs, loads, setups, listeners, nLoads, lastSnap>>
    /\ UNCHANGED <<filterVars, scrollVars>>

\* The run ends; the backend emits agent-complete:<run.id> (lines 205-207)
RunComplete ==
    /\ runStatus = "running"
    /\ runStatus' = "completed"
    /\ toast' = IF open /\ ListenersOf(inst, "complete") # {} THEN "completed" ELSE toast
    /\ lastOp' = <<"step", "">>
    /\ UNCHANGED <<emitted, propStatus, now, cache, inst, open, rawJsonlOutput, messages,
                   loading, refreshing, unlistenRefs, loads, setups, listeners, nLoads,
                   liveSeen, lastSnap>>
    /\ UNCHANGED <<filterVars, scrollVars>>

\* faulty variant: the agent-cancelled listener appends a notice to the message list
RunCancel_AppendsNotice ==
    /\ runStatus = "running"
    /\ runStatus' = "cancelled"
    /\ toast' = IF open /\ ListenersOf(inst, "cancelled") # {} THEN "cancelled" ELSE toast
    /\ messages' = IF open /\ ListenersOf(inst, "cancelled") # {}
                   THEN Append(messages, 0) ELSE messages
    /\ lastOp' = <<"step", "">>
    /\ UNCHANGED <<emitted, propStatus, now, cache, inst, open, rawJsonlOutput,
                   loading, refreshing, unlistenRefs, loads, setups, listeners, nLoads,
                   liveSeen, lastSnap>>
    /\ UNCHANGED <<filterVars, scrollVars>>

\* The run is cancelled; the backend emits agent-cancelled:<run.id> (lines 209-211)
RunCancel ==
    /\ runStatus = "running"
    /\ runStatus' = "cancelled"
    /\ toast' = IF open /\ ListenersOf(inst, "cancelled") # {} THEN "cancelled" ELSE toast
    /\ lastOp' = <<"step", "">>
    /\ UNCHANGED <<emitted, propStatus, now, cache, inst, open, rawJsonlOutput, messages,
                   loading, refreshing, unlistenRefs, loads, setups, listeners, nLoads,
                   liveSeen, lastSnap>>
    /\ UNCHANGED <<filterVars, scrollVars>>

\* The parent re-renders the viewer with the run's current status
PropRefresh ==
    /\ propStatus # runStatus
    /\ propStatus' = runStatus
    /\ lastOp' = <<"step", "">>
    /\ UNCHANGED <<emitted, runStatus, now, cache, inst, open, rawJsonlOutput, messages,
                   loading, refreshing, toast, unlistenRefs, loads, setups, listeners,
                   nLoads, liveSeen, lastSnap>>
    /\ UNCHANGED <<filterVars, scrollVars>>

\* Time passes.  Date.now() is read by loadOutput when a viewer is opened (line 128)
\* and only against cached.lastUpdated, so the clock is advanced between viewers,
\* while an entry is cached and younger than the window
Tick ==
    /\ now < MaxTicks * TickMs
    /\ ~open
    /\ cache.present
    /\ now - cache.lastUpdated < FreshnessMs
    /\ now' = now + TickMs
    /\ lastOp' = <<"step", "">>
    /\ UNCHANGED <<emitted, runStatus, propStatus, cache, inst, open, rawJsonlOutput,
                   messages, loading, refreshing, toast, unlistenRefs, loads, setups,
                   listeners, nLoads, liveSeen, lastSnap>>
    /\ UNCHANGED <<filterVars, scrollVars>>

\* The viewer is closed: the unmount cleanup effect (lines 102-106); React drops
\* the state of the instance
Unmount ==
    /\ open
    /\ open' = FALSE
    /\ listeners' = Unlisten(listeners, unlistenRefs[inst])
    /\ rawJsonlOutput' = <<>>
    /\ messages' = <<>>
    /\ loading' = FALSE
    /\ refreshing' = FALSE
    /\ toast' = "none"
    /\ liveSeen' = {}
    /\ lastSnap' = <<>>
    /\ lastOp' = <<"step", "">>
    /\ UNCHANGED <<emitted, runStatus, propStatus, now, cache, inst, unlistenRefs, loads,
                   setups, nLoads>>
    /\ UNCHANGED <<filterVars, scrollVars>>

Next ==
    \/ Mount
    \/ Refresh
    \/ \E l \in loads : FetchServe(l)
    \/ \E l \in loads : FetchResolve(l)
    \/ \E l \in loads : FetchReject(l)
    \/ \E l \in loads : StreamDone(l)
    \/ \E s \in setups : ListenStep(s)
    \/ \E s \in setups : ListenFail(s)
    \/ \E kind \in LineKinds : Emit(kind)
    \/ RunComplete
    \/ RunCancel
    \/ PropRefresh
    \/ Tick
    \/ Unmount

Spec == Init /\ [][Next]_vars

----------------------------------------------------------------------------
\* The filter on a growing message list

\* setMessages(prev => [...prev, message]) and the useMemo that follows it
AppendMessage(m) ==
    /\ Len(fmessages) < MaxMsgs
    /\ fmessages' = Append(fmessages, m)
    /\ displayable' = displayableMessages(fmessages')
    /\ UNCHANGED itemSizeCache
    /\ UNCHANGED <<viewerVars, scrollVars>>

FilterNext == \E m \in StreamMessages : AppendMessage(m)

FilterSpec == Init /\ [][FilterNext]_vars

----------------------------------------------------------------------------
\* The virtualizers of the message list (AgentExecution.tsx:163-176, 718-743):
\* useVirtualizer with count displayableMessages.length, the index as the key of
\* an item, and the cumulative offsets of section 4.4 of the specification

\* estimateSize: () => 150
estimateSize == ItemHeight

\* the sizes measureElement finds
MeasuredSizes == {ItemHeight - 50, ItemHeight + 70}

\* the size of the item at index p: measured, or the estimate
SizeOf(v, p) ==
    IF itemSizeCache[v][p] # NotMeasured THEN itemSizeCache[v][p] ELSE estimateSize

\* virtualItem.start of the item at index p: the sizes of the items before it
RECURSIVE StartOf(_, _)
StartOf(v, p) == IF p = 1 THEN 0 ELSE StartOf(v, p - 1) + SizeOf(v, p - 1)

\* getTotalSize() with count items
getTotalSize(v, count) == IF count = 0 THEN 0 ELSE StartOf(v, count) + SizeOf(v, count)

\* count: displayableMessages.length
VirtualCount == Len(displayable)

\* ref={(el) => el && rowVirtualizer.measureElement(el)}: the item at index p is
\* mounted and its size h is recorded under its index (data-index)
measureElement(v, p, h) ==
    /\ p \in 1..VirtualCount
    /\ itemSizeCache[v][p] # h
    /\ itemSizeCache' = [itemSizeCache EXCEPT ![v][p] = h]
    /\ UNCHANGED <<fmessages, displayable>>
    /\ UNCHANGED <<viewerVars, scrollVars>>

\* the messages appended to the virtualized list
WindowMessages ==
    {Msg("assistant", List(<<ToolUse("t1", Bash)>>)),
     Msg("assistant", List(<<ToolUse("t1", UnknownTool)>>)),
     Msg("user", List(<<ToolResult("t1")>>)),
     Msg("user", List(<<Text>>)),
     [Msg("system", Absent) EXCEPT !.hasMessage = FALSE, !.isMeta = TRUE],
     [Msg("result", Absent) EXCEPT !.hasMessage = FALSE]}

WindowNext ==
    \/ \E m \in WindowMessages : AppendMessage(m)
    \/ \E v \in Virtualizers, p \in 1..MaxMsgs, h \in MeasuredSizes : measureElement(v, p, h)

WindowSpec == Init /\ [][WindowNext]_vars

----------------------------------------------------------------------------
\* The scrolled message list (AgentExecution.tsx:188-212, 686-696;
\* AgentRunOutputViewer.tsx:82-114, 290-295).  Lengths are in pixels; every item
\* is ItemHeight high and the scroll container ClientHeight.

Components == {"AgentExecution", "AgentRunOutputViewer"}

Max(a, b) == IF a > b THEN a ELSE b

Min(a, b) == IF a < b THEN a ELSE b

\* container.scrollHeight with n items
scrollHeight(n) == Max(n * ItemHeight, ClientHeight)

\* container.clientHeight
clientHeight == ClientHeight

\* scrollHeight - scrollTop - clientHeight
distanceFromBottom(n, top) == scrollHeight(n) - top - clientHeight

\* the largest scrollTop the container allows with n items
ScrollMax(n) == scrollHeight(n) - clientHeight

\* the scroll container is rendered: always in AgentExecution (line 683); in
\* AgentRunOutputViewer when not loading and messages.length > 0 (lines 524-539)
ContainerOf(c, n, ld) == c = "AgentExecution" \/ (~ld /\ n > 0)

\* the container isAtBottom and the auto-scroll act on: that of the fullscreen
\* view while it is open (AgentExecution.tsx:190, 206; AgentRunOutputViewer.tsx:83,
\* 94), which is rendered whenever it is open (lines 761, 826; 563, 625)
ActiveContainer(c, n, ld) == isFullscreenModalOpen \/ ContainerOf(c, n, ld)

\* isAtBottom: distanceFromBottom < 1; true without a container
isAtBottom(n, top, exists) ==
    IF exists THEN distanceFromBottom(n, top) < BottomEpsilon ELSE TRUE

\* scrollToIndex(last, {align: "end", behavior: "smooth"}) and
\* endRef.scrollIntoView({behavior: "smooth"}): the smooth scroll heads for the
\* bottom as laid out at the call
SmoothToBottom(n, top) == IF top = ScrollMax(n) THEN NoScroll ELSE ScrollMax(n)

\* AgentExecution onScroll (lines 686-696): the value of hasUserScrolled it leaves
ExecOnScroll(has, n, top) ==
    LET marked == IF ~has THEN TRUE ELSE has
    IN  IF isAtBottom(n, top, TRUE) THEN FALSE ELSE marked

\* faulty variant: handleScroll with the threshold of isAtBottom
handleScroll_Exact(n, top) == distanceFromBottom(n, top) > 0

\* AgentRunOutputViewer handleScroll (lines 290-295): the value of hasUserScrolled
handleScroll(n, top) == distanceFromBottom(n, top) > ScrollTolerance

\* faulty variant: the effect scrolls to the last item whatever hasUserScrolled is
ExecScrollEffect_Always(n, has, top, cur) ==
    IF n = 0 THEN cur ELSE SmoothToBottom(n, top)

\* AgentExecution auto-scroll effect (lines 199-212): the smooth scroll in progress
\* after the effect, cur being the one in progress before
ExecScrollEffect(n, has, top, cur) ==
    IF n = 0 THEN cur
    ELSE LET shouldAutoScroll == ~has \/ isAtBottom(n, top, TRUE)
         IN  IF shouldAutoScroll THEN SmoothToBottom(n, top) ELSE cur

\* AgentRunOutputViewer scrollToBottom (lines 92-99)
scrollToBottom(n, has, top, exists, cur) ==
    IF ~has /\ exists THEN SmoothToBottom(n, top) ELSE cur

\* AgentRunOutputViewer auto-scroll effect (lines 109-114)
ViewerScrollEffect(n, has, top, exists, cur) ==
    LET shouldAutoScroll == ~has \/ isAtBottom(n, top, exists)
    IN  IF shouldAutoScroll THEN scrollToBottom(n, has, top, exists, cur) ELSE cur

OnScrollOf(c, has, n, top) ==
    IF c = "AgentExecution" THEN ExecOnScroll(has, n, top) ELSE handleScroll(n, top)

EffectOf(c, n, has, top, exists, cur) ==
    IF c = "AgentExecution" THEN ExecScrollEffect(n, has, top, cur)
    ELSE ViewerScrollEffect(n, has, top, exists, cur)

\* a scroll event of the normal view's container under the fullscreen view, at
\* scrollTop back: handleScroll reads the container scrolled (e.currentTarget),
\* the onScroll of AgentExecution calls isAtBottom, which reads the fullscreen one
BackOnScroll(c, has, n, top, back) ==
    IF c = "AgentExecution" THEN ExecOnScroll(has, n, top) ELSE handleScroll(n, back)

\* A render that shows n1 items (ld1: the viewer's loading flag), followed by the
\* auto-scroll effect when one of its dependencies changed.  The browser keeps
\* scrollTop, clamps it to the new layout and fires a scroll event when it moved; a
\* container that is created starts at scrollTop 0.
Render(n1, ld1, depChanged) ==
    LET ex0  == ActiveContainer(component, items, viewLoading)
        ex1  == ActiveContainer(component, n1, ld1)
        bex  == /\ isFullscreenModalOpen
                /\ ContainerOf(component, items, viewLoading)
                /\ ContainerOf(component, n1, ld1)
        back1 == IF bex THEN Min(backTop, ScrollMax(n1)) ELSE 0
        top1 == IF ex0 /\ ex1 THEN Min(scrollTop, ScrollMax(n1)) ELSE 0
        cur0 == IF ex0 /\ ex1 /\ scrolling # NoScroll /\ Min(scrolling, ScrollMax(n1)) > top1
                THEN Min(scrolling, ScrollMax(n1)) ELSE NoScroll
        cur1 == IF depChanged
                THEN EffectOf(component, n1, hasUserScrolled, top1, ex1, cur0) ELSE cur0
        has1 == IF ex0 /\ ex1 /\ top1 # scrollTop
                THEN OnScrollOf(component, hasUserScrolled, n1, top1)
                ELSE IF bex /\ back1 # backTop
                THEN BackOnScroll(component, hasUserScrolled, n1, top1, back1)
                ELSE hasUserScrolled
        cur2 == IF has1 # hasUserScrolled
                THEN EffectOf(component, n1, has1, top1, ex1, cur1) ELSE cur1
    IN  /\ items' = n1
        /\ viewLoading' = ld1
        /\ scrollTop' = top1
        /\ hasUserScrolled' = has1
        /\ scrolling' = cur2
        /\ backTop' = back1

\* A scroll event at scrollTop t: the scroll handler, then the effect when
\* hasUserScrolled changed; cur is the smooth scroll that goes on
ScrollEvent(t, cur) ==
    LET has1 == OnScrollOf(component, hasUserScrolled, items, t)
    IN  /\ scrollTop' = t
        /\ hasUserScrolled' = has1
        /\ scrolling' = IF has1 # hasUserScrolled
                        THEN EffectOf(component, items, has1, t, TRUE, cur) ELSE cur
        /\ UNCHANGED <<items, viewLoading, backTop>>

\* the positions the user scrolls to: the top, and around the two thresholds
ScrollStops(n) ==
    LET below == {0, BottomEpsilon, ScrollTolerance, ScrollTolerance + 1}
    IN  {t \in {0} \cup {ScrollMax(n) - d : d \in below} : t >= 0}

\* The user scrolls the list; a smooth scroll in progress is interrupted
UserScroll(t) ==
    /\ component \in Components
    /\ ActiveContainer(component, items, viewLoading)
    /\ t \in ScrollStops(items) \ {scrollTop}
    /\ ScrollEvent(t, NoScroll)
    /\ userScrolled' = TRUE
    /\ UNCHANGED <<component, isFullscreenModalOpen, isRunning, error, execs, execListeners, execRefs, alive,
                   nRuns, viewLoad>>
    /\ UNCHANGED <<viewerVars, filterVars, runVars>>

\* The smooth scroll in progress moves the list, to its end or part of the way
ScrollStep(t) ==
    /\ component \in Components
    /\ scrolling # NoScroll
    /\ t \in (ScrollStops(items) \cup {scrolling})
    /\ scrollTop < t /\ t <= scrolling
    /\ ScrollEvent(t, IF t = scrolling THEN NoScroll ELSE scrolling)
    /\ UNCHANGED <<component, isFullscreenModalOpen, userScrolled, isRunning, error, execs, execListeners,
                   execRefs, alive, nRuns, viewLoad>>
    /\ UNCHANGED <<viewerVars, filterVars, runVars>>

----------------------------------------------------------------------------
\* AgentExecution: handleExecute, its listeners and handleStop

ExecListenersOf(r, ch) == {x \in execListeners : x.run = r /\ x.ch = ch}

\* the four listeners a handleExecute invocation registers for its run
ExecSetup(e) == {[run |-> e.id, ch |-> Channels[k]] : k \in 1..4}

\* handleExecute up to await api.executeAgent (lines 268-283); the button runs it
\* when isRunning is false (line 659) and lies under the fullscreen view (line 762)
HandleExecute ==
    /\ component = "AgentExecution"
    /\ ~isRunning
    /\ ~isFullscreenModalOpen
    /\ nRuns < MaxRuns
    /\ isRunning' = TRUE
    /\ error' = "none"
    /\ Render(0, viewLoading, items # 0)
    /\ nRuns' = nRuns + 1
    /\ execs' = execs \cup {[id |-> nRuns + 1, pc |-> "execute", n |-> 0]}
    /\ UNCHANGED <<component, isFullscreenModalOpen, userScrolled, execListeners, execRefs, alive, viewLoad>>
    /\ UNCHANGED <<viewerVars, filterVars>>

\* api.executeAgent resolves with the id of the run it started; handleExecute goes
\* on to its first await listen (line 286)
ExecuteResolve(e) ==
    /\ e.pc = "execute"
    /\ alive' = alive \cup {e.id}
    /\ execs' = (execs \ {e}) \cup {[e EXCEPT !.pc = "listen"]}
    /\ UNCHANGED <<component, isFullscreenModalOpen, backTop, hasUserScrolled, items, scrollTop, scrolling, userScrolled,
                   isRunning, error, execListeners, execRefs, nRuns, viewLoading, viewLoad>>
    /\ UNCHANGED <<viewerVars, filterVars, runVars>>

\* api.executeAgent rejects: catch (lines 319-324)
ExecuteReject(e) ==
    /\ e.pc = "execute"
    /\ execs' = execs \ {e}
    /\ error' = "executeFailed"
    /\ isRunning' = FALSE
    /\ UNCHANGED <<component, isFullscreenModalOpen, backTop, hasUserScrolled, items, scrollTop, scrolling, userScrolled,
                   execListeners, execRefs, alive, nRuns, viewLoading, viewLoad>>
    /\ UNCHANGED <<viewerVars, filterVars, runVars>>

\* the next await listen(...) registers its listener and resolves; after the
\* fourth, line 318 records the four in unlistenRefs
ExecListenStep(e) ==
    /\ e.pc = "listen"
    /\ execListeners' = execListeners \cup {[run |-> e.id, ch |-> Channels[e.n + 1]]}
    /\ IF e.n < 3
       THEN /\ execs' = (execs \ {e}) \cup {[e EXCEPT !.n = e.n + 1]}
            /\ UNCHANGED execRefs
       ELSE /\ execs' = execs \ {e}
            /\ execRefs' = ExecSetup(e)
    /\ UNCHANGED <<component, isFullscreenModalOpen, backTop, hasUserScrolled, items, scrollTop, scrolling, userScrolled,
                   isRunning, error, alive, nRuns, viewLoading, viewLoad>>
    /\ UNCHANGED <<viewerVars, filterVars, runVars>>

\* an await listen(...) rejects: catch (lines 319-324)
ExecListenFail(e) ==
    /\ e.pc = "listen"
    /\ execs' = execs \ {e}
    /\ error' = "executeFailed"
    /\ isRunning' = FALSE
    /\ UNCHANGED <<component, isFullscreenModalOpen, backTop, hasUserScrolled, items, scrollTop, scrolling, userScrolled,
                   execListeners, execRefs, alive, nRuns, viewLoading, viewLoad>>
    /\ UNCHANGED <<viewerVars, filterVars, runVars>>

\* run r writes a line that parses; its agent-output listener appends the message
\* (lines 286-297)
ExecOutput(r) ==
    /\ component = "AgentExecution"
    /\ r \in alive
    /\ ExecListenersOf(r, "output") # {}
    /\ items < MaxItems
    /\ Render(items + 1, viewLoading, TRUE)
    /\ UNCHANGED <<component, isFullscreenModalOpen, userScrolled, isRunning, error, execs, execListeners,
                   execRefs, alive, nRuns, viewLoad>>
    /\ UNCHANGED <<viewerVars, filterVars>>

\* run r ends; agent-complete:<r> carries its success (lines 304-310)
ExecComplete(r, success) ==
    /\ component = "AgentExecution"
    /\ r \in alive
    /\ alive' = alive \ {r}
    /\ IF ExecListenersOf(r, "complete") # {}
       THEN /\ isRunning' = FALSE
            /\ error' = IF ~success THEN "failed" ELSE error
       ELSE UNCHANGED <<isRunning, error>>
    /\ UNCHANGED <<component, isFullscreenModalOpen, backTop, hasUserScrolled, items, scrollTop, scrolling, userScrolled,
                   execs, execListeners, execRefs, nRuns, viewLoading, viewLoad>>
    /\ UNCHANGED <<viewerVars, filterVars, runVars>>

\* run r is cancelled; agent-cancelled:<r> (lines 312-316)
ExecCancelled(r) ==
    /\ component = "AgentExecution"
    /\ r \in alive
    /\ alive' = alive \ {r}
    /\ IF ExecListenersOf(r, "cancelled") # {}
       THEN /\ isRunning' = FALSE
            /\ error' = "cancelled"
       ELSE UNCHANGED <<isRunning, error>>
    /\ UNCHANGED <<component, isFullscreenModalOpen, backTop, hasUserScrolled, items, scrollTop, scrolling, userScrolled,
                   execs, execListeners, execRefs, nRuns, viewLoading, viewLoad>>
    /\ UNCHANGED <<viewerVars, filterVars, runVars>>

\* handleStop (lines 327-353): the agent itself is not stopped
HandleStop ==
    /\ component = "AgentExecution"
    /\ isRunning
    /\ items < MaxItems
    /\ isRunning' = FALSE
    /\ execListeners' = execListeners \ execRefs
    /\ execRefs' = {}
    /\ Render(items + 1, viewLoading, TRUE)
    /\ UNCHANGED <<component, isFullscreenModalOpen, userScrolled, error, execs, alive, nRuns, viewLoad>>
    /\ UNCHANGED <<viewerVars, filterVars>>

----------------------------------------------------------------------------
\* AgentRunOutputViewer: the changes of its message list, as its scrolled list
\* sees them

\* what getCachedOutput(run.id) returns when the viewer is opened on a run, and
\* whether line 128 lets loadOutput return at once
CacheStates ==
    {[present |-> FALSE, n |-> 0, only |-> FALSE]}
    \cup {[present |-> TRUE, n |-> k, only |-> o] : k \in 0..MaxItems, o \in BOOLEAN}

\* run.id is set or changes: the load-on-mount effect (lines 297-311) and
\* loadOutput up to its first await
ViewerOpen(cached) ==
    /\ component = "AgentRunOutputViewer"
    /\ viewLoad = "none"
    /\ LET n1  == IF cached.present THEN cached.n ELSE items
           ld1 == IF cached.present /\ cached.only THEN viewLoading ELSE TRUE
       IN  /\ Render(n1, ld1, cached.present)
           /\ viewLoad' = IF cached.present /\ cached.only THEN "none" ELSE "fetch"
    /\ UNCHANGED <<component, isFullscreenModalOpen, userScrolled, isRunning, error, execs, execListeners,
                   execRefs, alive, nRuns>>
    /\ UNCHANGED <<viewerVars, filterVars>>

\* refreshOutput (lines 284-288) up to await api.getSessionOutput
ViewerRefresh ==
    /\ component = "AgentRunOutputViewer"
    /\ viewLoad = "none"
    /\ Render(items, TRUE, FALSE)
    /\ viewLoad' = "fetch"
    /\ UNCHANGED <<component, isFullscreenModalOpen, userScrolled, isRunning, error, execs, execListeners,
                   execRefs, alive, nRuns>>
    /\ UNCHANGED <<viewerVars, filterVars, runVars>>

\* api.getSessionOutput resolves with k lines that parse (lines 137-169); for a
\* running run loadOutput goes on to await api.streamSessionOutput
ViewerFetchResolve(k, running) ==
    /\ component = "AgentRunOutputViewer"
    /\ viewLoad = "fetch"
    /\ Render(k, viewLoading /\ running, TRUE)
    /\ viewLoad' = IF running THEN "stream" ELSE "none"
    /\ UNCHANGED <<component, isFullscreenModalOpen, userScrolled, isRunning, error, execs, execListeners,
                   execRefs, alive, nRuns>>
    /\ UNCHANGED <<viewerVars, filterVars>>

\* api.getSessionOutput rejects, or api.streamSessionOutput settles: finally (line 174)
ViewerLoadEnd ==
    /\ component = "AgentRunOutputViewer"
    /\ viewLoad \in {"fetch", "stream"}
    /\ Render(items, FALSE, FALSE)
    /\ viewLoad' = "none"
    /\ UNCHANGED <<component, isFullscreenModalOpen, userScrolled, isRunning, error, execs, execListeners,
                   execRefs, alive, nRuns>>
    /\ UNCHANGED <<viewerVars, filterVars, runVars>>

\* the agent-output listener appends a message (lines 187-198)
ViewerOutput ==
    /\ component = "AgentRunOutputViewer"
    /\ items < MaxItems
    /\ Render(items + 1, viewLoading, TRUE)
    /\ UNCHANGED <<component, isFullscreenModalOpen, userScrolled, isRunning, error, execs, execListeners,
                   execRefs, alive, nRuns, viewLoad>>
    /\ UNCHANGED <<viewerVars, filterVars>>

\* setIsFullscreenModalOpen(true) (AgentExecution.tsx:498; AgentRunOutputViewer.tsx:492),
\* once the list is at rest: the fullscreen view is rendered over the normal one, its
\* container at scrollTop 0, and the auto-scroll effect runs for the changed flag
OpenFullscreen ==
    /\ component \in Components
    /\ ~isFullscreenModalOpen
    /\ scrolling = NoScroll
    /\ isFullscreenModalOpen' = TRUE
    /\ backTop' = IF ContainerOf(component, items, viewLoading) THEN scrollTop ELSE 0
    /\ scrollTop' = 0
    /\ scrolling' = EffectOf(component, items, hasUserScrolled, 0, TRUE, NoScroll)
    /\ UNCHANGED <<component, hasUserScrolled, items, userScrolled, isRunning, error,
                   execs, execListeners, execRefs, alive, nRuns, viewLoading, viewLoad>>
    /\ UNCHANGED <<viewerVars, filterVars, runVars>>

\* setIsFullscreenModalOpen(false) (AgentExecution.tsx:815; AgentRunOutputViewer.tsx:492,
\* 616): the fullscreen view and a smooth scroll of it are gone, the normal view is
\* where it was, and the auto-scroll effect runs for the changed flag
CloseFullscreen ==
    /\ component \in Components
    /\ isFullscreenModalOpen
    /\ isFullscreenModalOpen' = FALSE
    /\ LET ex   == ContainerOf(component, items, viewLoading)
           top1 == IF ex THEN backTop ELSE 0
       IN  /\ scrollTop' = top1
           /\ scrolling' = EffectOf(component, items, hasUserScrolled, top1, ex, NoScroll)
    /\ backTop' = 0
    /\ UNCHANGED <<component, hasUserScrolled, items, userScrolled, isRunning, error,
                   execs, execListeners, execRefs, alive, nRuns, viewLoading, viewLoad>>
    /\ UNCHANGED <<viewerVars, filterVars, runVars>>

ScrollNext ==
    \/ \E t \in ScrollStops(items) : UserScroll(t)
    \/ \E t \in ScrollStops(items) \cup {scrolling} : ScrollStep(t)
    \/ HandleExecute /\ UNCHANGED runVars
    \/ \E e \in execs : ExecuteResolve(e)
    \/ \E e \in execs : ExecuteReject(e)
    \/ \E e \in execs : ExecListenStep(e)
    \/ \E e \in execs : ExecListenFail(e)
    \/ \E r \in 1..MaxRuns : ExecOutput(r) /\ UNCHANGED runVars
    \/ \E r \in 1..MaxRuns, success \in BOOLEAN : ExecComplete(r, success)
    \/ \E r \in 1..MaxRuns : ExecCancelled(r)
    \/ HandleStop /\ UNCHANGED runVars
    \/ \E cached \in CacheStates : ViewerOpen(cached) /\ UNCHANGED runVars
    \/ ViewerRefresh
    \/ \E k \in 0..MaxItems, running \in BOOLEAN :
           ViewerFetchResolve(k, running) /\ UNCHANGED runVars
    \/ ViewerLoadEnd
    \/ ViewerOutput /\ UNCHANGED runVars
    \/ OpenFullscreen
    \/ CloseFullscreen

ScrollInit == InitViewer /\ InitFilter /\ \E c \in Components : InitScreen(c)

ScrollSpec == ScrollInit /\ [][ScrollNext]_vars

----------------------------------------------------------------------------
\* The runs behind the message list: the executions of AgentExecution and the
\* runs AgentRunOutputViewer is opened on, told apart.  The list is left unscrolled.

\* the run.id the parent passes next
OtherRuns == (1..MaxRuns) \ {viewRun}

\* the runs whose lines the list holds once the cached entry of run id is shown
CachedLog(cached, id) ==
    IF ~cached.present THEN logRuns ELSE IF cached.n > 0 THEN {id} ELSE {}

\* run.id changes while the fetch for the run shown is in flight: the effect
\* (lines 297-311) runs loadOutput for the new run; nothing cancels the earlier call
ViewerRunChange(cached, id) ==
    /\ component = "AgentRunOutputViewer"
    /\ viewLoad = "fetch"
    /\ staleRun = 0
    /\ id \in OtherRuns
    /\ staleRun' = viewRun
    /\ viewRun' = id
    /\ logRuns' = CachedLog(cached, id)
    /\ LET n1 == IF cached.present THEN cached.n ELSE items
       IN  /\ Render(n1, TRUE, cached.present)
           /\ viewLoad' = IF cached.present /\ cached.only THEN "none" ELSE "fetch"
    /\ UNCHANGED <<component, isFullscreenModalOpen, userScrolled, isRunning, error, execs,
                   execListeners, execRefs, alive, nRuns, stopped>>
    /\ UNCHANGED <<viewerVars, filterVars>>

\* the fetch for the earlier run, which has ended, resolves with k lines that parse
\* (lines 137-150), and finally sets loading to false (line 174)
StaleFetchResolve(k) ==
    /\ component = "AgentRunOutputViewer"
    /\ staleRun # 0
    /\ staleRun' = 0
    /\ logRuns' = (IF k > 0 THEN {staleRun} ELSE {})
    /\ Render(k, FALSE, TRUE)
    /\ UNCHANGED <<component, isFullscreenModalOpen, userScrolled, isRunning, error, execs,
                   execListeners, execRefs, alive, nRuns, viewLoad, viewRun, stopped>>
    /\ UNCHANGED <<viewerVars, filterVars>>

RunNext ==
    \/ HandleExecute /\ logRuns' = {} /\ UNCHANGED <<viewRun, staleRun, stopped>>
    \/ \E e \in execs : ExecuteResolve(e)
    \/ \E e \in execs : ExecuteReject(e)
    \/ \E e \in execs : ExecListenStep(e)
    \/ \E e \in execs : ExecListenFail(e)
    \/ \E r \in 1..MaxRuns :
           ExecOutput(r) /\ logRuns' = logRuns \cup {r}
                         /\ UNCHANGED <<viewRun, staleRun, stopped>>
    \/ \E r \in 1..MaxRuns, success \in BOOLEAN : ExecComplete(r, success)
    \/ \E r \in 1..MaxRuns : ExecCancelled(r)
    \/ HandleStop /\ stopped' = stopped \cup {nRuns}
                  /\ UNCHANGED <<viewRun, staleRun, logRuns>>
    \/ \E cached \in CacheStates, id \in OtherRuns :
           ViewerOpen(cached) /\ viewRun' = id /\ logRuns' = CachedLog(cached, id)
                              /\ UNCHANGED <<staleRun, stopped>>
    \/ \E cached \in CacheStates, id \in OtherRuns : ViewerRunChange(cached, id)
    \/ ViewerRefresh
    \/ \E k \in 0..MaxItems, running \in BOOLEAN :
           ViewerFetchResolve(k, running)
               /\ logRuns' = (IF k > 0 THEN {viewRun} ELSE {})
               /\ UNCHANGED <<viewRun, staleRun, stopped>>
    \/ \E k \in 0..MaxItems : StaleFetchResolve(k)
    \/ ViewerLoadEnd
    \/ ViewerOutput /\ logRuns' = logRuns \cup {viewRun}
                    /\ UNCHANGED <<viewRun, staleRun, stopped>>

RunSpec == ScrollInit /\ [][RunNext]_vars

----------------------------------------------------------------------------
\* Properties of the snapshot/live merge, the cache and the listeners

\* a loadOutput of the mounted instance is awaiting api.getSessionOutput
FetchInFlight == \E l \in loads : l.inst = inst /\ l.pc \in {"fetch", "served"}

\* the mounted instance has finished loading and subscribing
Settled ==
    /\ open
    /\ unlistenRefs[inst] # {}
    /\ \A l \in loads : l.inst # inst
    /\ \A s \in setups : s.inst # inst

\* listeners registered by a viewer instance that has been closed
ClosedListeners == {x \in listeners : x.inst < inst \/ (x.inst = inst /\ ~open)}

\* C1: once a viewer of the running run has loaded and subscribed, every line the
\* run has emitted is in its log: the raw record holds every line, the message list
\* every line that parses.
C1_GapFree ==
    Settled => \A l \in 1..Len(emitted) :
                   /\ l \in Range(rawJsonlOutput)
                   /\ ParseOk(l) => l \in Range(messages)

C3_Buffered ==
    [][ /\ (open /\ FetchInFlight /\ liveSeen' # liveSeen) =>
               rawJsonlOutput' = rawJsonlOutput
        /\ \A l \in loads :
              (FetchResolve(l) /\ Mounted(l.inst)) =>
                  \A x \in liveSeen : x \in Range(rawJsonlOutput')
      ]_vars

\* C4: a viewer shows the cached entry without a fetch only if the entry is younger
\* than 5000 ms and the status recorded in the entry is not running.
C4_CacheNecessary ==
    lastOp = <<"mount", "cache">> =>
        /\ cache.present
        /\ now - cache.lastUpdated < FreshnessMs
        /\ cache.status # "running"

\* C5 as stated: every loadOutput for a run whose status is running issues a fetch,
\* and no such load ends without having initiated the live subscription.
C5_AlwaysSubscribes ==
    [][ /\ ((Mount \/ Refresh) /\ propStatus = "running") => nLoads' = nLoads + 1
        /\ \A l \in loads :
              (l.status = "running" /\ l.pc \in {"fetch", "served"}) =>
                  \E l2 \in loads' : l2.id = l.id
      ]_vars

\* C5 amended: every loadOutput for a run whose status is running issues a fetch,
\* whatever the age of the cached entry, and when that fetch resolves the live
\* subscription is initiated.
C5_FetchThenSubscribe ==
    [][ /\ ((Mount \/ Refresh) /\ propStatus = "running") =>
               /\ nLoads' = nLoads + 1
               /\ \E l \in loads' : l.id = nLoads' /\ l.pc = "fetch" /\ l.inst = inst'
        /\ \A l \in loads :
              (FetchResolve(l) /\ l.status = "running") =>
                  /\ \E s \in setups' : s.id = l.id /\ s.n = 0
                  /\ \E l2 \in loads' : l2.id = l.id /\ l2.pc = "stream"
      ]_vars

\* C5 witness: a viewer opened on the running run with a fresh cached entry has
\* issued a fetch
C5_Witness ==
    /\ lastOp = <<"mount", "fetch">>
    /\ propStatus = "running"
    /\ cache.present
    /\ now - cache.lastUpdated < FreshnessMs
    /\ \E l \in loads : l.inst = inst /\ l.pc = "fetch"

\* C6: opening a viewer while the cache holds an entry younger than 5000 ms whose
\* recorded status is completed shows the cached lines and messages and issues no
\* fetch.
C6_CacheSufficient ==
    [][ (Mount /\ cache.present /\ now - cache.lastUpdated < FreshnessMs
               /\ cache.status = "completed") =>
            /\ messages' = cache.messages
            /\ rawJsonlOutput' = cache.output
            /\ loads' = loads
            /\ nLoads' = nLoads
            /\ ~loading'
      ]_vars

\* C6 witness: a viewer was opened from a fresh entry recorded as completed
C6_Witness ==
    /\ lastOp = <<"mount", "cache">>
    /\ cache.status = "completed"
    /\ now - cache.lastUpdated < FreshnessMs
    /\ messages = cache.messages
    /\ Len(messages) > 0

\* C7: no listener registered by a closed viewer is subscribed.
C7_NoListenerAfterClose == ClosedListeners = {}

\* C8: the resolution of a fetch of a closed viewer changes neither the log nor the
\* cache and subscribes nothing.
C8_DiscardAfterClose ==
    [][ \A l \in loads :
            (FetchResolve(l) /\ ~Mounted(l.inst)) =>
                /\ cache' = cache
                /\ rawJsonlOutput' = rawJsonlOutput
                /\ messages' = messages
                /\ setups' = setups
                /\ listeners' = listeners
      ]_vars

----------------------------------------------------------------------------
\* Properties of the visibility filter

Shown(i) == \E p \in 1..Len(displayable) : displayable[p] = i

\* message m is an assistant message with a tool_use block of this id
UsesTool(m, id) ==
    /\ m.type = "assistant" /\ m.hasMessage /\ m.content.kind = "list"
    /\ \E k \in 1..Len(m.content.blocks) :
           m.content.blocks[k].type = "tool_use" /\ m.content.blocks[k].id = id

\* the tool_result with this id in message i has no tool_use in an earlier
\* assistant message
Orphan(i, id) == \A j \in 1..(i - 1) : ~UsesTool(fmessages[j], id)

\* the tool invocation the tool_result with this id in message i refers to is
\* self-rendering, SelfRendering(name) telling which tool names are
RefSelfRendering(i, id, SelfRendering(_)) ==
    /\ id # ""
    /\ \E j \in 1..(i - 1) :
          /\ UsesTool(fmessages[j], id)
          /\ \A k \in (j + 1)..(i - 1) : ~UsesTool(fmessages[k], id)
          /\ LET blocks == fmessages[j].content.blocks
                 first  == CHOOSE b \in 1..Len(blocks) :
                               /\ blocks[b].type = "tool_use" /\ blocks[b].id = id
                               /\ \A a \in 1..(b - 1) :
                                      ~(blocks[a].type = "tool_use" /\ blocks[a].id = id)
             IN  SelfRendering(blocks[first].name)

\* the name, ignoring case, is a widget tool or starts with mcp__
SelfRenderingAnyCase(name) ==
    \/ toLowerCase(name) \in toolsWithWidgets
    \/ startsWith(toLowerCase(name), McpPrefix)

\* the name, ignoring case, is a widget tool, or starts with mcp__ as written
SelfRenderingExactPrefix(name) ==
    \/ toLowerCase(name) \in toolsWithWidgets
    \/ startsWith(name, McpPrefix)

\* the two-message transcript: a tool_use of this name, then its tool_result
UseThenResult(name) ==
    fmessages = << Msg("assistant", List(<<ToolUse("t1", name)>>)),
                   Msg("user", List(<<ToolResult("t1")>>)) >>

VisibilityRule(SelfRendering(_)) ==
    /\ \A i \in 1..Len(fmessages) :
          LET m == fmessages[i]
              blocks == m.content.blocks
          IN  (m.type = "user" /\ m.hasMessage /\ ~m.isMeta
                  /\ m.content.kind = "list" /\ Len(blocks) > 0) =>
                  (Shown(i) <=>
                      \E k \in 1..Len(blocks) :
                          \/ blocks[k].type = "text"
                          \/ /\ blocks[k].type = "tool_result"
                             /\ ~RefSelfRendering(i, blocks[k].id, SelfRendering))
    /\ (UseThenResult(Bash) \/ UseThenResult(Read)) => Len(displayable) = 1
    /\ UseThenResult(UnknownTool) => Len(displayable) = 2

\* C9 as stated: a non-meta user message with a non-empty content list is shown
\* iff it holds a text block or a tool_result whose tool, found by name ignoring
\* case, is neither a widget tool nor named mcp__...; bash and Read give a visible
\* count of 1, UnknownTool gives 2.
C9_VisibleAnyCase == VisibilityRule(SelfRenderingAnyCase)

\* C9 amended: the same, the ten widget names being compared ignoring case and the
\* prefix mcp__ being compared as written (in lower case).
C9_VisibleExactPrefix == VisibilityRule(SelfRenderingExactPrefix)

\* C9 witness: the result of a tool named MCP__x is shown, that of mcp__x would not be
C9_Witness ==
    /\ UseThenResult(McpUpper)
    /\ displayable = <<1, 2>>

\* C10 as stated: a user message with a tool_result whose tool_use_id matches no
\* tool_use of an earlier assistant message is shown.
C10_FailOpen ==
    \A i \in 1..Len(fmessages) :
        LET m == fmessages[i]
        IN  (m.type = "user" /\ m.hasMessage /\ m.content.kind = "list"
                /\ \E k \in 1..Len(m.content.blocks) :
                       /\ m.content.blocks[k].type = "tool_result"
                       /\ Orphan(i, m.content.blocks[k].id)) => Shown(i)

\* C10 amended: a user message that is not flagged meta and has a tool_result whose
\* tool_use_id matches no tool_use of an earlier assistant message is shown.
C10_FailOpenNonMeta ==
    \A i \in 1..Len(fmessages) :
        LET m == fmessages[i]
        IN  (m.type = "user" /\ m.hasMessage /\ ~m.isMeta /\ m.content.kind = "list"
                /\ \E k \in 1..Len(m.content.blocks) :
                       /\ m.content.blocks[k].type = "tool_result"
                       /\ Orphan(i, m.content.blocks[k].id)) => Shown(i)

\* C10 witness: the tool_use follows the tool_result, which is shown
C10_Witness ==
    /\ fmessages = << Msg("user", List(<<ToolResult("t1")>>)),
                      Msg("assistant", List(<<ToolUse("t1", Bash)>>)) >>
    /\ displayable = <<1, 2>>

\* the content of message m is absent: no message body, or a body without content
ContentAbsent(m) == ~m.hasMessage \/ m.content.kind = "absent"

\* C23: a user event whose content is absent or is an empty list is never shown,
\* and a user event flagged meta is never shown, also when it carries a leaf-link or
\* a summary field.
C23_UserDrops ==
    \A i \in 1..Len(fmessages) :
        LET m == fmessages[i]
        IN  m.type = "user" =>
                /\ ContentAbsent(m) => ~Shown(i)
                /\ (m.hasMessage /\ m.content.kind = "list" /\ Len(m.content.blocks) = 0) =>
                       ~Shown(i)
                /\ m.isMeta => ~Shown(i)

\* message m is flagged meta and carries neither a leaf-link nor a summary field
BareMeta(m) == m.isMeta /\ ~m.leafUuid /\ ~m.summary

\* C24: a message of any kind that is flagged meta and carries neither a leaf-link
\* nor a summary field is never shown; every system, assistant, result or summary
\* message that this rule does not drop is shown.
C24_MetaRule ==
    \A i \in 1..Len(fmessages) :
        LET m == fmessages[i]
        IN  /\ BareMeta(m) => ~Shown(i)
            /\ (m.type \in {"system", "assistant", "result", "summary"} /\ ~BareMeta(m)) =>
                   Shown(i)

\* C24 witness: a meta system message is dropped, a meta summary message with a
\* summary field and a plain result message are shown
C24_Witness ==
    /\ fmessages = << [Msg("system", Absent) EXCEPT !.hasMessage = FALSE, !.isMeta = TRUE],
                      [Msg("summary", Absent) EXCEPT !.hasMessage = FALSE, !.isMeta = TRUE,
                                                      !.summary = TRUE],
                      [Msg("result", Absent) EXCEPT !.hasMessage = FALSE] >>
    /\ displayable = <<2, 3>>

\* the last message before message i that is an assistant message with a tool_use
\* block of this id; 0 when there is none
NearestUse(i, id) ==
    LET js == {j \in 1..(i - 1) : UsesTool(fmessages[j], id)}
    IN  IF js = {} THEN 0 ELSE CHOOSE j \in js : \A k \in js : k <= j

\* the name of the first tool_use block of this id in message j
UsedName(j, id) ==
    LET blocks == fmessages[j].content.blocks
        first  == CHOOSE b \in 1..Len(blocks) :
                      /\ blocks[b].type = "tool_use" /\ blocks[b].id = id
                      /\ \A a \in 1..(b - 1) :
                             ~(blocks[a].type = "tool_use" /\ blocks[a].id = id)
    IN  blocks[first].name

\* C25: a non-meta user message that holds one tool_result, with a tool_use of its
\* id in an earlier assistant message, is shown iff the tool named by the last such
\* assistant message before it is not rendered by a widget; the earlier assistant
\* messages with that id, the message itself and the messages after it have no say.
C25_MostRecentFirst ==
    \A i \in 1..Len(fmessages) :
        LET m == fmessages[i]
        IN  (m.type = "user" /\ m.hasMessage /\ ~m.isMeta /\ m.content.kind = "list"
                /\ Len(m.content.blocks) = 1
                /\ m.content.blocks[1].type = "tool_result"
                /\ m.content.blocks[1].id # ""
                /\ NearestUse(i, m.content.blocks[1].id) # 0) =>
                LET id == m.content.blocks[1].id
                IN  Shown(i) <=> ~HasWidget(UsedName(NearestUse(i, id), id))

\* C25 witness: two assistant messages use the id t1, bash first and UnknownTool
\* last; the result is shown
C25_Witness ==
    /\ fmessages = << Msg("assistant", List(<<ToolUse("t1", Bash)>>)),
                      Msg("assistant", List(<<ToolUse("t1", UnknownTool)>>)),
                      Msg("user", List(<<ToolResult("t1")>>)) >>
    /\ displayable = <<1, 2, 3>>

\* C26: the decision for message i depends on messages 1..i only, and appending a
\* message keeps the visible projection as a prefix: the projection after the append
\* is the projection before it, followed by the new message or by nothing.
C26_PrefixStable ==
    [][ fmessages' # fmessages =>
            /\ \A i \in 1..Len(fmessages') :
                   IsDisplayable(fmessages', i) = IsDisplayable(SubSeq(fmessages', 1, i), i)
            /\ Len(displayable') >= Len(displayable)
            /\ SubSeq(displayable', 1, Len(displayable)) = displayable
            /\ \A p \in (Len(displayable) + 1)..Len(displayable') :
                   displayable'[p] = Len(fmessages')
      ]_vars

\* C26 witness: a tool_use of bash with the id t1 was appended after the result of
\* UnknownTool with that id; the result is still shown
C26_Witness ==
    /\ fmessages = << Msg("assistant", List(<<ToolUse("t1", UnknownTool)>>)),
                      Msg("user", List(<<ToolResult("t1")>>)),
                      Msg("assistant", List(<<ToolUse("t1", Bash)>>)) >>
    /\ displayable = <<1, 2, 3>>

\* the index of message i in the visible projection, 0 when it is not shown
IndexOf(i) ==
    IF Shown(i) THEN CHOOSE p \in 1..Len(displayable) : displayable[p] = i ELSE 0

----------------------------------------------------------------------------
\* Properties of error handling and of the log

\* s is strictly increasing
Increasing(s) == \A i, j \in 1..Len(s) : i < j => s[i] < s[j]

C12_FetchFailureIntact ==
    [][ \A l \in loads :
            (FetchReject(l) /\ Mounted(l.inst)) =>
                /\ cache' = cache
                /\ rawJsonlOutput' = rawJsonlOutput
                /\ messages' = messages
                /\ toast' = "loadFailed"
                /\ ~loading'
                /\ refreshing' = (refreshing /\ ~l.refresh)
                /\ open'
      ]_vars

\* C12 witness: a fetch failed in a viewer that shows the cached log; the entry is
\* still cached and no load is pending
C12_Witness ==
    /\ open
    /\ toast = "loadFailed"
    /\ ~loading /\ ~refreshing
    /\ cache.present
    /\ messages = cache.messages
    /\ Len(messages) > 0
    /\ \A l \in loads : l.inst # inst

C14_EndEventsKeepLog ==
    [][ (RunComplete \/ RunCancel) =>
            /\ runStatus = "running" /\ runStatus' \in {"completed", "cancelled"}
            /\ messages' = messages
            /\ rawJsonlOutput' = rawJsonlOutput
      ]_vars

\* C14 witness: a viewer with a non-empty log has handled agent-cancelled
C14_Witness ==
    /\ open
    /\ runStatus = "cancelled"
    /\ toast = "cancelled"
    /\ Len(messages) > 0
    /\ Len(rawJsonlOutput) > 0

\* C15: while a viewer is open, every change of its raw-line record keeps every
\* line already present at its index: the record before the step is a prefix of the
\* record after it.
C15_AppendOnly ==
    [][ (open /\ open' /\ inst' = inst) =>
            /\ Len(rawJsonlOutput') >= Len(rawJsonlOutput)
            /\ SubSeq(rawJsonlOutput', 1, Len(rawJsonlOutput)) = rawJsonlOutput
      ]_vars

\* sequences of at most MaxLines live lines of the run
LiveSeqs == UNION {[1..n -> 1..Len(emitted)] : n \in 0..MaxLines}

C27_RawMatchesMessages ==
    open =>
        /\ Len(rawJsonlOutput) = Len(messages)
        /\ \A i \in 1..Len(messages) : messages[i] = rawJsonlOutput[i]

\* no setupLiveEventListeners of the mounted instance is awaiting a registration
NoSetupPending == \A x \in setups : x.inst # inst

\* C28: at most one agent-output listener of the open viewer is subscribed, also
\* while loads overlap; once no registration is pending, every subscribed listener
\* of the viewer is recorded in its unlistenRefs; and a live line delivered to the
\* viewer is appended to the raw record exactly once.
C28_OneListener ==
    [][ /\ open' => Cardinality(ListenersOf(inst, "output"))' <= 1
        /\ (open' /\ NoSetupPending') =>
               \A x \in listeners' : x.inst = inst' => x \in unlistenRefs'[inst']
        /\ \A kind \in LineKinds :
               (Emit(kind) /\ open /\ ListenersOf(inst, "output") # {}) =>
                   rawJsonlOutput' = Append(rawJsonlOutput, Len(emitted'))
      ]_vars

----------------------------------------------------------------------------
\* Properties of the scroll mode: Following is hasUserScrolled = FALSE,
\* PinnedByUser is hasUserScrolled = TRUE

\* the distance from the bottom of the list on screen
Distance == distanceFromBottom(items, scrollTop)

\* the step is a scroll event caused by the user
UserScrollEvent == \E t \in ScrollStops(items) : UserScroll(t)

\* the step appends a message to the list on screen
AppendEvent == (\E r \in 1..MaxRuns : ExecOutput(r)) \/ HandleStop \/ ViewerOutput

Pinned ==
    /\ component \in Components
    /\ ActiveContainer(component, items, viewLoading)
    /\ hasUserScrolled
    /\ Distance > (IF component = "AgentExecution" THEN BottomEpsilon - 1
                   ELSE ScrollTolerance)

\* C18: while the mode is PinnedByUser, appending a message leaves the scroll
\* position and the mode unchanged and starts no scroll; and no step other than a
\* scroll event, of either view, starts a scroll to the bottom.
C18_PinnedStays ==
    [][ /\ (Pinned /\ AppendEvent) =>
               /\ scrollTop' = scrollTop
               /\ scrolling' = scrolling
               /\ hasUserScrolled'
        /\ (Pinned /\ scrollTop' = scrollTop /\ backTop' = backTop
                   /\ scrolling = NoScroll) =>
               scrolling' = NoScroll
      ]_vars

\* C18 witness: AgentExecution, scrolled by the user to the top of two items, has
\* appended a third: the list has not moved
C18_Witness ==
    /\ component = "AgentExecution"
    /\ userScrolled /\ hasUserScrolled
    /\ items = 3
    /\ scrollTop = 0
    /\ scrolling = NoScroll
    /\ Distance = ScrollMax(3)

\* C19: in AgentExecution, as long as the user has not scrolled, once the smooth
\* scroll has ended the list is at the bottom and the mode is Following.
C19_FollowsToBottom ==
    (component = "AgentExecution" /\ ~userScrolled /\ items > 0 /\ scrolling = NoScroll) =>
        (Distance = 0 /\ ~hasUserScrolled)

\* C20: the mode is Following at first, and is Following after a new execution is
\* started in AgentExecution and after AgentRunOutputViewer is opened on a run.
C20_ResetOnReopen ==
    [][ (HandleExecute \/ \E cached \in CacheStates : ViewerOpen(cached)) =>
            ~hasUserScrolled'
      ]_vars

Views == {"normal", "fullscreen"}

\* the view the user sees and scrolls: the fullscreen view covers the normal one
ViewOnTop == IF isFullscreenModalOpen THEN "fullscreen" ELSE "normal"

\* the mode of a view: the flag its scroll handler sets and the auto-scroll effect
\* reads when the view is the one on top (AgentExecution.tsx:686-696, 826-840,
\* 199-212; AgentRunOutputViewer.tsx:290-295, 539, 627, 92-114)
ModeOf(view) == hasUserScrolled

\* C21: a user scroll event in one view changes the mode of that view only: the
\* mode of the other view is unchanged.
C21_ModePerView ==
    [][ UserScrollEvent =>
            \A view \in Views \ {ViewOnTop} : ModeOf(view)' = ModeOf(view)
      ]_vars

\* the run whose log the component shows: the execution started last, or run.id
CurrentRun == IF component = "AgentExecution" THEN nRuns ELSE viewRun

\* C29: no listener of an execution the user has stopped is subscribed, and no
\* output line of a stopped execution is appended to the log.
C29_StopUnsubscribes ==
    [][ /\ \A x \in execListeners' : x.run \notin stopped'
        /\ \A r \in stopped : ~ExecOutput(r)
      ]_vars

\* C30: every line of the message list was fetched for or emitted by the run the
\* component shows.
C30_RunIsolation == logRuns \subseteq {CurrentRun}

====
